---- MODULE Spec2Model ----
(***************************************************************************)
(* Book Collection API (dfpopov/hub_security): users, authors and books    *)
(* behind a bearer-token guard.  The relational store is the three tables  *)
(* users / authors / books; every handler runs in one database session and *)
(* commits as a unit, so one action is one request.                         *)
(***************************************************************************)
EXTENDS Integers, Sequences, FiniteSets, TLC

VARIABLES users, authors, books, nextUserId, nextAuthorId, nextBookId, now, resp,
          requests

vars == <<users, authors, books, nextUserId, nextAuthorId, nextBookId, now, resp, requests>>

(***************************************************************************)
(* Bounds of the model                                                     *)
(***************************************************************************)
MaxUserId == 2
MaxAuthorId == 2
MaxBookId == 2
MaxTicks == 3
TickMinutes == 15

(***************************************************************************)
(* Python values                                                           *)
(***************************************************************************)
\* None of an Optional[int]; ids and years are positive
None == -1
\* a field left out of a partial update (model_dump(exclude_unset=True))
Unset == -2
\* None and "not set" of an Optional[str]
NoneStr == "<None>"
UnsetStr == "<unset>"

\* Python truthiness of an Optional[int] / Optional[str]
Truthy(x) == x # None /\ x # 0
TruthyStr(s) == s # NoneStr /\ s # ""

(***************************************************************************)
(* Request inputs                                                          *)
(***************************************************************************)
EmailInputs == {"a@x.com", "b@x.com", "invalid-email"}
UsernameInputs == {"alice", "bob", "al"}
\* a password of 129 characters
LongPassword ==
    "ppppppppppppppppppppppppppppppppppppppppppppppppppppppppppppppppppppppppppppppppppppppppppppppppppppppppppppppppppppppppppppppppp"
PasswordInputs == {"testpassword123", "password", "PASSWORD", "123", LongPassword}
AuthorNames == {"Tolkien", "Lewis"}
Biographies == {"bio"}
Titles == {"LOTR", "Narnia"}
Genres == {"Fantasy"}
Years == {2023, 2025}

\* len(s), "@" in s, "." in s and s.lower() of the input strings
StrLen(s) ==
    CASE s = "testpassword123" -> 15
      [] s = "password" -> 8
      [] s = "PASSWORD" -> 8
      [] s = "123" -> 3
      [] s = "alice" -> 5
      [] s = "bob" -> 3
      [] s = "al" -> 2
      [] s = "a@x.com" -> 7
      [] s = "b@x.com" -> 7
      [] s = "invalid-email" -> 13
      [] s = "otherpass99" -> 11
      [] s = LongPassword -> 129
      [] s = "wrongpassword" -> 13
      [] OTHER -> 0
HasAt(s) == s \in {"a@x.com", "b@x.com"}
HasDot(s) == s \in {"a@x.com", "b@x.com"}
Lower(s) == IF s = "PASSWORD" THEN "password" ELSE s

(***************************************************************************)
(* Tokens                                                                  *)
(***************************************************************************)
ACCESS_TOKEN_EXPIRE_MINUTES == 30
REFRESH_TOKEN_EXPIRE_DAYS == 7
SECRET_KEY == "server-secret"
WRONG_KEY == "wrong_secret_key"
NoSub == "<no sub>"
NoExp == -1

\* a signed token is its claim plus the key that signed it
Token(sub, exp, typ, key) ==
    [malformed |-> FALSE, sub |-> sub, exp |-> exp, typ |-> typ, key |-> key]
\* a string that is not a JWT ("invalid_token", "expired.token.here")
MalformedToken ==
    [malformed |-> TRUE, sub |-> NoSub, exp |-> NoExp, typ |-> "access", key |-> WRONG_KEY]
\* no token in a response
NoToken ==
    [malformed |-> TRUE, sub |-> NoSub, exp |-> NoExp, typ |-> "none", key |-> "none"]

create_access_token(sub, expires_delta) ==
    Token(sub, now + expires_delta, "access", SECRET_KEY)
create_refresh_token(sub) ==
    Token(sub, now + REFRESH_TOKEN_EXPIRE_DAYS * 24 * 60, "refresh", SECRET_KEY)

(***************************************************************************)
(* Responses                                                               *)
(***************************************************************************)
\* page, size, pages, has_next, has_prev of a PaginatedResponse
PageInfo(page, size, pages, has_next, has_prev) ==
    [page |-> page, size |-> size, pages |-> pages, has_next |-> has_next,
     has_prev |-> has_prev]
NoPageInfo == PageInfo(0, 0, 0, FALSE, FALSE)

Response(op, caller, id, status, detail, items, total) ==
    [op |-> op, caller |-> caller, id |-> id, status |-> status, detail |-> detail,
     items |-> items, total |-> total, access_token |-> NoToken, refresh_token |-> NoToken,
     meta |-> NoPageInfo]

Init ==
    /\ users = {}
    /\ authors = {}
    /\ books = {}
    /\ nextUserId = 1
    /\ nextAuthorId = 1
    /\ nextBookId = 1
    /\ now = 0
    /\ resp = Response("init", 0, 0, "200", "", <<>>, 0)
    /\ requests = << >>

(***************************************************************************)
(* Rows in primary-key order, OFFSET and LIMIT                             *)
(***************************************************************************)
RECURSIVE OrderById(_)
OrderById(rows) ==
    IF rows = {} THEN <<>>
    ELSE LET first == CHOOSE r \in rows : \A q \in rows : r.id <= q.id
         IN  <<first>> \o OrderById(rows \ {first})

Min(a, b) == IF a <= b THEN a ELSE b

OffsetLimit(seq, skip, limit) ==
    SubSeq(seq, skip + 1, Min(Len(seq), skip + limit))

(***************************************************************************)
(* User Directory: storage (app/crud/user.py) and app/models/user.py       *)
(***************************************************************************)
\* EmailStr of the request schemas
EmailStr(s) == s \in {"a@x.com", "b@x.com"}

get_user(user_id) == {u \in users : u.id = user_id}
get_user_by_email(email) == {u \in users : u.email = email}
get_user_by_username(username) == {u \in users : u.username = username}

get_password_hash(password) == <<"bcrypt", password>>
verify_password(password, hashed) == hashed = <<"bcrypt", password>>

\* unique=True on users.email and users.username: the commit of a table
\* holding two rows with one email or one username fails
UniqueNoCheck(table) == TRUE
UsersUnique(table) ==
    \A u1, u2 \in table :
        u1.id # u2.id => u1.email # u2.email /\ u1.username # u2.username


\* create_user: hash the password, INSERT, commit
crud_create_user(email, username, password) ==
    LET row == [id |-> nextUserId, email |-> email, username |-> username,
                hashed_password |-> get_password_hash(password)]
    IN  users \cup {row}

\* update_user: field-level partial update of one row; the password is stored hashed
crud_update_user(user_id, email, username, password) ==
    {IF u.id # user_id THEN u
     ELSE [id |-> u.id,
           email |-> IF email = UnsetStr THEN u.email ELSE email,
           username |-> IF username = UnsetStr THEN u.username ELSE username,
           hashed_password |-> IF password = UnsetStr THEN u.hashed_password
                               ELSE get_password_hash(password)] : u \in users}

\* cascade="all, delete-orphan" of User.authors / User.books and of Author.books:
\* the rows that survive the delete of a user, and of an author
AuthorsAfterUserDelete(user_id) == {a \in authors : a.user_id # user_id}
NoCascadeBooksOfUser(user_id) == books
BooksAfterUserDelete(user_id) ==
    {b \in books : b.user_id # user_id
                   /\ ~(\E a \in authors : a.id = b.author_id /\ a.user_id = user_id)}
NoCascadeBooksOfAuthor(author_id) == books
BooksAfterAuthorDelete(author_id) == {b \in books : b.author_id # author_id}

(***************************************************************************)
(* UserService (app/services/user_service.py)                              *)
(***************************************************************************)
\* Settings.max_password_length
MAX_PASSWORD_LENGTH == 128
weak_passwords == {"password", "123456", "qwerty", "admin"}

\* the ValueError create_user raises, "" when it raises none
create_user_error_swapped(email, username, password) ==
    IF ~HasAt(email) \/ ~HasDot(email) THEN "Invalid email format"
    ELSE IF StrLen(password) < 8 THEN "Password must be at least 8 characters long"
    ELSE IF Lower(password) \in weak_passwords THEN "Password is too weak"
    ELSE IF StrLen(username) < 3 THEN "Username must be at least 3 characters long"
    ELSE IF get_user_by_username(username) # {} THEN "Username already taken"
    ELSE IF get_user_by_email(email) # {} THEN "Email already registered"
    ELSE ""
create_user_error(email, username, password) ==
    IF ~HasAt(email) \/ ~HasDot(email) THEN "Invalid email format"
    ELSE IF StrLen(password) < 8 THEN "Password must be at least 8 characters long"
    ELSE IF Lower(password) \in weak_passwords THEN "Password is too weak"
    ELSE IF StrLen(username) < 3 THEN "Username must be at least 3 characters long"
    ELSE IF get_user_by_email(email) # {} THEN "Email already registered"
    ELSE IF get_user_by_username(username) # {} THEN "Username already taken"
    ELSE ""

\* the ValueError update_user raises, "" when it raises none
update_user_error(email, password) ==
    IF email # UnsetStr /\ ~HasAt(email) THEN "Invalid email format"
    ELSE IF password # UnsetStr /\ StrLen(password) < 8
         THEN "Password must be at least 8 characters long"
    ELSE IF password # UnsetStr /\ Lower(password) \in weak_passwords
         THEN "Password is too weak"
    ELSE ""

\* UserService.update_user(user_id, UserUpdate(email, username, password))
UserService_update_user(user_id, email, username, password) ==
    /\ email = UnsetStr \/ EmailStr(email)
    /\ LET err == update_user_error(email, password)
           table == crud_update_user(user_id, email, username, password)
       IN  IF get_user(user_id) = {}
           THEN /\ users' = users
                /\ resp' = Response("update_user", 0, user_id, "None", "", <<>>, 0)
           ELSE IF err # ""
           THEN /\ users' = users
                /\ resp' = Response("update_user", 0, user_id, "ValueError", err, <<>>, 0)
           ELSE IF ~UsersUnique(table)
           THEN /\ users' = users
                /\ resp' = Response("update_user", 0, user_id, "IntegrityError", "", <<>>, 0)
           ELSE /\ users' = table
                /\ resp' = Response("update_user", 0, user_id, "ok", "",
                                    OrderById({u \in table : u.id = user_id}), 0)
    /\ UNCHANGED <<authors, books, nextUserId, nextAuthorId, nextBookId, now, requests>>

\* UserService.delete_user(user_id)
UserService_delete_user(user_id) ==
    /\ IF get_user(user_id) = {}
       THEN /\ UNCHANGED <<users, authors, books>>
            /\ resp' = Response("delete_user", 0, user_id, "False", "", <<>>, 0)
       ELSE /\ users' = {u \in users : u.id # user_id}
            /\ authors' = AuthorsAfterUserDelete(user_id)
            /\ books' = BooksAfterUserDelete(user_id)
            /\ resp' = Response("delete_user", 0, user_id, "True", "", <<>>, 0)
    /\ UNCHANGED <<nextUserId, nextAuthorId, nextBookId, now, requests>>

(***************************************************************************)
(* /auth/register (app/api/auth.py)                                        *)
(***************************************************************************)
\* request validation of UserCreate: passes, or 422
UserCreate_valid(email, username, password) ==
    EmailStr(email) /\ StrLen(password) >= 8

register(email, username, password) ==
    /\ LET err == create_user_error(email, username, password)
           table == crud_create_user(email, username, password)
       IN  IF ~UserCreate_valid(email, username, password)
           THEN /\ UNCHANGED <<users, nextUserId>>
                /\ resp' = Response("register", 0, 0, "422", "validation error", <<>>, 0)
           ELSE IF err # ""
           THEN /\ UNCHANGED <<users, nextUserId>>
                /\ resp' = Response("register", 0, 0, "400", err, <<>>, 0)
           ELSE IF ~UsersUnique(table)
           THEN /\ UNCHANGED <<users, nextUserId>>
                /\ resp' = Response("register", 0, 0, "500", "Internal Server Error", <<>>, 0)
           ELSE /\ nextUserId <= MaxUserId
                /\ users' = table
                /\ nextUserId' = nextUserId + 1
                /\ resp' = [Response("register", 0, nextUserId, "200", "",
                                     OrderById({u \in table : u.id = nextUserId}), 0)
                            EXCEPT !.access_token =
                                create_access_token(email, ACCESS_TOKEN_EXPIRE_MINUTES)]
    /\ UNCHANGED <<authors, books, nextAuthorId, nextBookId, now, requests>>


(***************************************************************************)
(* Authors: app/crud/author.py and app/api/author.py.  current_user is the *)
(* User the Authorization Guard resolved for the request.                  *)
(***************************************************************************)
get_author_any_user(author_id, user_id) == {a \in authors : a.id = author_id}
get_author(author_id, user_id) ==
    {a \in authors : a.id = author_id /\ a.user_id = user_id}

\* response_model=Author: AuthorInDB inherits AuthorBase's min_length=1 fields;
\* a row that fails it makes the response a 500 after the handler returned
Author_valid(a) == a.name \notin {"", NoneStr} /\ a.biography \notin {"", NoneStr}

get_authors(user_id, skip, limit) ==
    OffsetLimit(OrderById({a \in authors : a.user_id = user_id}), skip, limit)

\* Query(0, ge=0) and Query(100, ge=1, le=100)
PageQuery_valid(skip, limit) == skip >= 0 /\ limit >= 1 /\ limit <= 100

read_authors(current_user, skip, limit) ==
    /\ current_user \in users
    /\ resp' = IF ~PageQuery_valid(skip, limit)
               THEN Response("read_authors", current_user.id, 0, "422", "validation error", <<>>, 0)
               ELSE LET rows == get_authors(current_user.id, skip, limit)
                    IN  IF \E i \in 1..Len(rows) : ~Author_valid(rows[i])
                        THEN Response("read_authors", current_user.id, 0, "500",
                                      "Internal Server Error", <<>>, 0)
                        ELSE Response("read_authors", current_user.id, 0, "200", "", rows,
                                      Len(rows))
    /\ UNCHANGED <<users, authors, books, nextUserId, nextAuthorId, nextBookId, now, requests>>

\* AuthorCreate: name and biography are required, min_length=1
AuthorCreate_valid(name, biography) ==
    name \notin {"", NoneStr} /\ biography \notin {"", NoneStr}

create_new_author(current_user, name, biography) ==
    /\ current_user \in users
    /\ LET row == [id |-> nextAuthorId, name |-> name, biography |-> biography,
                   user_id |-> current_user.id, created_at |-> now, updated_at |-> None]
       IN  IF ~AuthorCreate_valid(name, biography)
           THEN /\ UNCHANGED <<authors, nextAuthorId>>
                /\ resp' = Response("create_author", current_user.id, 0, "422",
                                    "validation error", <<>>, 0)
           ELSE /\ nextAuthorId <= MaxAuthorId
                /\ authors' = authors \cup {row}
                /\ nextAuthorId' = nextAuthorId + 1
                /\ resp' = Response("create_author", current_user.id, row.id, "200", "",
                                    <<row>>, 0)
    /\ UNCHANGED <<users, books, nextUserId, nextBookId, now, requests>>

read_author(current_user, author_id) ==
    /\ current_user \in users
    /\ LET author == get_author(author_id, current_user.id)
       IN  resp' = IF author = {}
                   THEN Response("read_author", current_user.id, author_id, "404",
                                 "Author not found", <<>>, 0)
                   ELSE IF \E a \in author : ~Author_valid(a)
                   THEN Response("read_author", current_user.id, author_id, "500",
                                 "Internal Server Error", <<>>, 0)
                   ELSE Response("read_author", current_user.id, author_id, "200", "",
                                 OrderById(author), 0)
    /\ UNCHANGED <<users, authors, books, nextUserId, nextAuthorId, nextBookId, now, requests>>

\* the row after setattr of every field the request set
\* and updated_at (onupdate=func.now()) when the UPDATE changes a column
AuthorUpdated(a, name, biography) ==
    LET new_name == IF name = UnsetStr THEN a.name ELSE name
        new_biography == IF biography = UnsetStr THEN a.biography ELSE biography
    IN  [id |-> a.id, user_id |-> a.user_id, name |-> new_name,
         biography |-> new_biography, created_at |-> a.created_at,
         updated_at |-> IF new_name # a.name \/ new_biography # a.biography
                        THEN now ELSE a.updated_at]

update_existing_author(current_user, author_id, name, biography) ==
    /\ current_user \in users
    /\ LET db_author == get_author(author_id, current_user.id)
       IN  IF db_author = {}
           THEN /\ authors' = authors
                /\ resp' = Response("update_author", current_user.id, author_id, "404",
                                    "Author not found", <<>>, 0)
           ELSE IF name = NoneStr
           THEN \* authors.name is nullable=False: the commit fails and is rolled back
                /\ authors' = authors
                /\ resp' = Response("update_author", current_user.id, author_id, "500",
                                    "Internal Server Error", <<>>, 0)
           ELSE LET new == {AuthorUpdated(a, name, biography) : a \in db_author}
                IN  /\ authors' = (authors \ db_author) \cup new
                    /\ resp' = IF \E a \in new : ~Author_valid(a)
                               THEN Response("update_author", current_user.id, author_id,
                                             "500", "Internal Server Error", <<>>, 0)
                               ELSE Response("update_author", current_user.id, author_id,
                                             "200", "", OrderById(new), 0)
    /\ UNCHANGED <<users, books, nextUserId, nextAuthorId, nextBookId, now, requests>>

delete_existing_author(current_user, author_id) ==
    /\ current_user \in users
    /\ LET db_author == get_author(author_id, current_user.id)
       IN  IF db_author = {}
           THEN /\ UNCHANGED <<authors, books>>
                /\ resp' = Response("delete_author", current_user.id, author_id, "404",
                                    "Author not found", <<>>, 0)
           ELSE /\ authors' = authors \ db_author
                /\ books' = BooksAfterAuthorDelete(author_id)
                /\ resp' = Response("delete_author", current_user.id, author_id, "200",
                                    "Author deleted successfully", <<>>, 0)
    /\ UNCHANGED <<users, nextUserId, nextAuthorId, nextBookId, now, requests>>


(***************************************************************************)
(* Books: app/crud/book.py, app/services/book_service.py, app/api/book.py  *)
(***************************************************************************)
get_book(book_id, user_id) == {b \in books : b.id = book_id /\ b.user_id = user_id}

\* BookService.get_user_book
get_user_book(user_id, book_id) ==
    {b \in get_book(book_id, user_id) : b.user_id = user_id}

\* the filtered query of get_books_with_pagination, before count / offset / limit
books_query_all_users(user_id, author_id, genre, publication_year) ==
    {b \in books :
        /\ Truthy(author_id) => b.author_id = author_id
        /\ TruthyStr(genre) => b.genre = genre
        /\ Truthy(publication_year) => b.publication_year = publication_year}
books_query(user_id, author_id, genre, publication_year) ==
    {b \in books :
        /\ b.user_id = user_id
        /\ Truthy(author_id) => b.author_id = author_id
        /\ TruthyStr(genre) => b.genre = genre
        /\ Truthy(publication_year) => b.publication_year = publication_year}

\* a page count that rounds down
page_count_floor(total, limit) == total \div limit

\* pages = (total + limit - 1) // limit
page_count(total, limit) == (total + limit - 1) \div limit

read_books(current_user, skip, limit, author_id, genre, publication_year) ==
    /\ current_user \in users
    /\ resp' = IF ~PageQuery_valid(skip, limit)
               THEN Response("read_books", current_user.id, 0, "422", "validation error", <<>>, 0)
               ELSE LET query == books_query(current_user.id, author_id, genre, publication_year)
                        total == Cardinality(query)
                        rows == OffsetLimit(OrderById(query), skip, limit)
                        page == (skip \div limit) + 1
                        pages == page_count(total, limit)
                        has_next == skip + limit < total
                        has_prev == skip > 0
                    IN  [Response("read_books", current_user.id, 0, "200", "", rows, total)
                         EXCEPT !.meta = PageInfo(page, Len(rows), pages, has_next, has_prev)]
    /\ UNCHANGED <<users, authors, books, nextUserId, nextAuthorId, nextBookId, now, requests>>

\* the literal the publication year is compared with
FUTURE_YEAR == 2024

\* the outcome of BookService.create_book before the INSERT: "TypeError" when
\* publication_year is None (None > 2024), the ValueError message, "" when it passes
create_book_error(user_id, publication_year, author_id) ==
    IF publication_year = None THEN "TypeError"
    ELSE IF publication_year > FUTURE_YEAR THEN "Publication year cannot be in the future"
    ELSE IF Truthy(author_id) /\ get_author(author_id, user_id) = {} THEN "Author not found"
    ELSE IF get_author(author_id, user_id) = {}
         THEN "Author not found or does not belong to user"
    ELSE ""

create_new_book(current_user, title, description, genre, publication_year, author_id) ==
    /\ current_user \in users
    /\ LET err == create_book_error(current_user.id, publication_year, author_id)
           row == [id |-> nextBookId, title |-> title, description |-> description,
                   genre |-> genre, publication_year |-> publication_year,
                   author_id |-> author_id, user_id |-> current_user.id,
                   created_at |-> now, updated_at |-> None]
       IN  IF err = "TypeError"
           THEN /\ UNCHANGED <<books, nextBookId>>
                /\ resp' = Response("create_book", current_user.id, 0, "500",
                                    "Internal Server Error", <<>>, 0)
           ELSE IF err # ""
           THEN /\ UNCHANGED <<books, nextBookId>>
                /\ resp' = Response("create_book", current_user.id, 0, "400", err, <<>>, 0)
           ELSE /\ nextBookId <= MaxBookId
                /\ books' = books \cup {row}
                /\ nextBookId' = nextBookId + 1
                /\ resp' = Response("create_book", current_user.id, row.id, "200", "", <<row>>, 0)
    /\ UNCHANGED <<users, authors, nextUserId, nextAuthorId, now, requests>>

read_book(current_user, book_id) ==
    /\ current_user \in users
    /\ LET book == get_user_book(current_user.id, book_id)
       IN  resp' = IF book = {}
                   THEN Response("read_book", current_user.id, book_id, "404",
                                 "Book not found", <<>>, 0)
                   ELSE Response("read_book", current_user.id, book_id, "200", "",
                                 OrderById(book), 0)
    /\ UNCHANGED <<users, authors, books, nextUserId, nextAuthorId, nextBookId, now, requests>>

\* the ValueError of BookService.update_user_book and of crud update_book,
\* "" when neither raises
update_book_error_unchecked(user_id, publication_year, author_id) ==
    IF Truthy(publication_year) /\ publication_year # Unset /\ publication_year > FUTURE_YEAR
    THEN "Publication year cannot be in the future"
    ELSE ""
update_book_error(user_id, publication_year, author_id) ==
    IF Truthy(publication_year) /\ publication_year # Unset /\ publication_year > FUTURE_YEAR
    THEN "Publication year cannot be in the future"
    ELSE IF author_id # Unset /\ Truthy(author_id) /\ get_author(author_id, user_id) = {}
    THEN "Author not found"
    ELSE IF author_id # Unset /\ get_author(author_id, user_id) = {}
    THEN "Author not found or does not belong to user"
    ELSE ""

\* the row after setattr of every field the request set
\* a PUT that replaces the whole row: fields the request omits are reset
BookReplaced(b, title, description, genre, publication_year, author_id) ==
    [id |-> b.id, user_id |-> b.user_id,
     title |-> IF title = UnsetStr THEN b.title ELSE title,
     description |-> IF description = UnsetStr THEN NoneStr ELSE description,
     genre |-> IF genre = UnsetStr THEN NoneStr ELSE genre,
     publication_year |-> IF publication_year = Unset THEN None ELSE publication_year,
     author_id |-> IF author_id = Unset THEN b.author_id ELSE author_id,
     created_at |-> b.created_at, updated_at |-> now]

BookUpdated(b, title, description, genre, publication_year, author_id) ==
    LET row == [id |-> b.id, user_id |-> b.user_id,
                title |-> IF title = UnsetStr THEN b.title ELSE title,
                description |-> IF description = UnsetStr THEN b.description ELSE description,
                genre |-> IF genre = UnsetStr THEN b.genre ELSE genre,
                publication_year |-> IF publication_year = Unset THEN b.publication_year
                                     ELSE publication_year,
                author_id |-> IF author_id = Unset THEN b.author_id ELSE author_id,
                created_at |-> b.created_at, updated_at |-> b.updated_at]
    IN  IF row = b THEN b ELSE [row EXCEPT !.updated_at = now]

\* an update that validates the body before it looks the book up
update_book_validating_first(current_user, book_id, title, description, genre, publication_year, author_id) ==
    /\ current_user \in users
    /\ LET book == get_user_book(current_user.id, book_id)
           err == update_book_error(current_user.id, publication_year, author_id)
           new == {BookUpdated(b, title, description, genre, publication_year, author_id) :
                       b \in get_book(book_id, current_user.id)}
       IN  IF err # ""
           THEN /\ books' = books
                /\ resp' = Response("update_book", current_user.id, book_id, "400", err, <<>>, 0)
           ELSE IF book = {}
           THEN /\ books' = books
                /\ resp' = Response("update_book", current_user.id, book_id, "404",
                                    "Book not found", <<>>, 0)
           ELSE IF title = NoneStr
           THEN /\ books' = books
                /\ resp' = Response("update_book", current_user.id, book_id, "500",
                                    "Internal Server Error", <<>>, 0)
           ELSE /\ books' = (books \ get_book(book_id, current_user.id)) \cup new
                /\ resp' = Response("update_book", current_user.id, book_id, "200", "",
                                    OrderById(new), 0)
    /\ UNCHANGED <<users, authors, nextUserId, nextAuthorId, nextBookId, now, requests>>

update_existing_book(current_user, book_id, title, description, genre, publication_year, author_id) ==
    /\ current_user \in users
    /\ LET book == get_user_book(current_user.id, book_id)
           err == update_book_error(current_user.id, publication_year, author_id)
           new == {BookUpdated(b, title, description, genre, publication_year, author_id) :
                       b \in get_book(book_id, current_user.id)}
       IN  IF book = {}
           THEN /\ books' = books
                /\ resp' = Response("update_book", current_user.id, book_id, "404",
                                    "Book not found", <<>>, 0)
           ELSE IF err # ""
           THEN /\ books' = books
                /\ resp' = Response("update_book", current_user.id, book_id, "400", err, <<>>, 0)
           ELSE IF title = NoneStr
           THEN \* books.title is nullable=False: the commit fails and is rolled back
                /\ books' = books
                /\ resp' = Response("update_book", current_user.id, book_id, "500",
                                    "Internal Server Error", <<>>, 0)
           ELSE /\ books' = (books \ get_book(book_id, current_user.id)) \cup new
                /\ resp' = Response("update_book", current_user.id, book_id, "200", "",
                                    OrderById(new), 0)
    /\ UNCHANGED <<users, authors, nextUserId, nextAuthorId, nextBookId, now, requests>>

delete_existing_book(current_user, book_id) ==
    /\ current_user \in users
    /\ LET book == get_user_book(current_user.id, book_id)
       IN  IF book = {}
           THEN /\ books' = books
                /\ resp' = Response("delete_book", current_user.id, book_id, "404",
                                    "Book not found", <<>>, 0)
           ELSE /\ books' = books \ get_book(book_id, current_user.id)
                /\ resp' = Response("delete_book", current_user.id, book_id, "200",
                                    "Book deleted successfully", <<>>, 0)
    /\ UNCHANGED <<users, authors, nextUserId, nextAuthorId, nextBookId, now, requests>>

(***************************************************************************)
(* The resource store: requests of authenticated users                     *)
(***************************************************************************)
UserIds == 1..MaxUserId
AuthorIdInputs == 1..MaxAuthorId
BookIdInputs == 1..MaxBookId
\* the i-th registrant
Account(i) == IF i % 2 = 1 THEN <<"a@x.com", "alice">> ELSE <<"b@x.com", "bob">>

\* request bodies: AuthorUpdate, BookCreate, BookUpdate
AuthorUpdateBodies ==
    {[name |-> n, biography |-> UnsetStr] : n \in {"Lewis", UnsetStr}}
        \cup {[name |-> UnsetStr, biography |-> "bio"]}
BookCreateBodies ==
    {[title |-> t, publication_year |-> 2023, author_id |-> a] :
        t \in {"LOTR"}, a \in {0} \cup AuthorIdInputs}
        \cup {[title |-> "LOTR", publication_year |-> y, author_id |-> a] :
                y \in {None, 2025}, a \in AuthorIdInputs}
BookUpdateBodies ==
    {[title |-> t, publication_year |-> Unset, author_id |-> Unset] :
        t \in {"Narnia", NoneStr}}
        \cup {[title |-> t, publication_year |-> Unset, author_id |-> a] :
                t \in {UnsetStr, "Narnia"}, a \in {None, 0} \cup AuthorIdInputs}
        \cup {[title |-> UnsetStr, publication_year |-> 2025, author_id |-> a] :
                a \in {Unset} \cup AuthorIdInputs}

RegisterAccount ==
    register(Account(nextUserId)[1], Account(nextUserId)[2], "testpassword123")
ChangeEmail ==
    \E user_id \in UserIds, email \in {"a@x.com", "b@x.com"} :
        UserService_update_user(user_id, email, UnsetStr, UnsetStr)
DeleteUser ==
    \E user_id \in UserIds : UserService_delete_user(user_id)
CreateAuthor ==
    \E u \in users, name \in {"Tolkien"}, biography \in Biographies :
        create_new_author(u, name, biography)
ReadAuthor ==
    \E u \in users, author_id \in AuthorIdInputs : read_author(u, author_id)
UpdateAuthor ==
    \E u \in users, author_id \in AuthorIdInputs, body \in AuthorUpdateBodies :
        update_existing_author(u, author_id, body.name, body.biography)
DeleteAuthor ==
    \E u \in users, author_id \in AuthorIdInputs : delete_existing_author(u, author_id)
CreateBook ==
    \E u \in users, body \in BookCreateBodies :
        create_new_book(u, body.title, NoneStr, NoneStr, body.publication_year,
                        body.author_id)
ReadBook ==
    \E u \in users, book_id \in BookIdInputs : read_book(u, book_id)
UpdateBook ==
    \E u \in users, book_id \in BookIdInputs, body \in BookUpdateBodies :
        update_existing_book(u, book_id, body.title, UnsetStr, UnsetStr,
                             body.publication_year, body.author_id)
DeleteBook ==
    \E u \in users, book_id \in BookIdInputs : delete_existing_book(u, book_id)

Next ==
    \/ RegisterAccount
    \/ ChangeEmail
    \/ DeleteUser
    \/ CreateAuthor
    \/ ReadAuthor
    \/ UpdateAuthor
    \/ DeleteAuthor
    \/ CreateBook
    \/ ReadBook
    \/ UpdateBook
    \/ DeleteBook

Spec == Init /\ [][Next]_vars

(***************************************************************************)
(* The user directory alone                                                *)
(***************************************************************************)
Register ==
    \E email \in EmailInputs, username \in UsernameInputs, password \in PasswordInputs :
        register(email, username, password)
UpdateUser ==
    \E user_id \in UserIds, email \in {UnsetStr, "a@x.com", "b@x.com"},
       username \in {UnsetStr, "alice", "bob"}, password \in {UnsetStr, "password", "testpassword123"} :
        UserService_update_user(user_id, email, username, password)
RemoveUser ==
    \E user_id \in UserIds : UserService_delete_user(user_id)

NextUsers ==
    \/ Register
    \/ UpdateUser
    \/ RemoveUser

SpecUsers == Init /\ [][NextUsers]_vars

(***************************************************************************)
(* Listing                                                                 *)
(***************************************************************************)
Skips == {0, 1, 3}
Limits == {0, 1, 2, 100, 101}

ListRegister ==
    register(Account(nextUserId)[1], Account(nextUserId)[2], "testpassword123")
ListCreateAuthor ==
    \E u \in users : create_new_author(u, "Tolkien", "bio")
ListCreateBook ==
    \E u \in users, genre \in {NoneStr} \cup Genres, author_id \in 1..MaxAuthorId :
        create_new_book(u, "LOTR", NoneStr, genre, 2023, author_id)
ReadAuthors ==
    \E u \in users, skip \in Skips, limit \in Limits : read_authors(u, skip, limit)
ReadBooks ==
    \E u \in users, skip \in Skips, limit \in Limits,
       author_id \in {None, 0} \cup (1..MaxAuthorId), genre \in {NoneStr, ""} \cup Genres,
       publication_year \in {None, 2023} :
        read_books(u, skip, limit, author_id, genre, publication_year)

NextList ==
    \/ ListRegister
    \/ ListCreateAuthor
    \/ ListCreateBook
    \/ ReadAuthors
    \/ ReadBooks

SpecList == Init /\ [][NextList]_vars

(***************************************************************************)
(* Token Service (app/core/security.py) and Authorization Guard            *)
(* (app/api/deps.py)                                                       *)
(***************************************************************************)
\* jose.jwt.decode: the error it raises, "" when the token decodes
decode_error_no_expiry(token) ==
    IF token.malformed THEN "JWTError"
    ELSE IF token.key # SECRET_KEY THEN "JWTError"
    ELSE ""
decode_error(token) ==
    IF token.malformed THEN "JWTError"
    ELSE IF token.key # SECRET_KEY THEN "JWTError"
    ELSE IF token.exp # NoExp /\ ~(now < token.exp) THEN "ExpiredSignatureError"
    ELSE ""

\* verify_token: the decoded claim, or None ({}) on any decode error
verify_token(token) ==
    IF decode_error(token) # "" THEN {}
    ELSE {[sub |-> token.sub, exp |-> token.exp, typ |-> token.typ]}

\* get_current_user: what the dependency raises, or the user it returns
get_current_user(header) ==
    LET payload == verify_token(header)
        user == UNION {get_user_by_email(p.sub) : p \in payload}
    IN  IF header = NoToken
        THEN [status |-> "403", detail |-> "Not authenticated", user |-> {}]
        ELSE IF payload = {} \/ (\E p \in payload : p.typ # "access")
                \/ (\E p \in payload : p.sub = NoSub) \/ user = {}
        THEN [status |-> "401", detail |-> "Could not validate credentials", user |-> {}]
        ELSE [status |-> "ok", detail |-> "", user |-> user]

\* a direct call of verify_token
VerifyTokenCall(token) ==
    /\ resp' = LET payload == verify_token(token)
               IN  IF payload = {}
                   THEN Response("verify_token", 0, 0, "None", "", <<>>, 0)
                   ELSE Response("verify_token", 0, 0, "claim", token.sub,
                                 <<CHOOSE p \in payload : TRUE>>, 0)
    /\ UNCHANGED <<users, authors, books, nextUserId, nextAuthorId, nextBookId, now, requests>>

\* GET /auth/me
read_users_me(current_user) ==
    /\ resp' = Response("me", current_user.id, current_user.id, "200", "", <<current_user>>, 0)
    /\ UNCHANGED <<users, authors, books, nextUserId, nextAuthorId, nextBookId, now, requests>>

\* the response of a protected route whose dependency raised
Rejected(op, id, auth) ==
    /\ resp' = Response(op, 0, id, auth.status, auth.detail, <<>>, 0)
    /\ UNCHANGED <<users, authors, books, nextUserId, nextAuthorId, nextBookId, now, requests>>

\* protected routes: current_user = Depends(get_current_user)
GetMe(header) ==
    LET auth == get_current_user(header)
    IN  IF auth.status # "ok" THEN Rejected("me", 0, auth)
        ELSE \E u \in auth.user : read_users_me(u)
GetAuthorUnguarded(header, author_id) ==
    \E u \in users : read_author(u, author_id)
GetAuthor(header, author_id) ==
    LET auth == get_current_user(header)
    IN  IF auth.status # "ok" THEN Rejected("read_author", author_id, auth)
        ELSE \E u \in auth.user : read_author(u, author_id)
PostAuthor(header, name, biography) ==
    LET auth == get_current_user(header)
    IN  IF auth.status # "ok" THEN Rejected("create_author", 0, auth)
        ELSE \E u \in auth.user : create_new_author(u, name, biography)

\* the clock of the token service, in minutes
Tick ==
    /\ now + TickMinutes <= MaxTicks * TickMinutes
    /\ now' = now + TickMinutes
    /\ UNCHANGED requests
    /\ resp' = Response("tick", 0, 0, "200", "", <<>>, 0)
    /\ UNCHANGED <<users, authors, books, nextUserId, nextAuthorId, nextBookId>>

Times == {k * TickMinutes : k \in 0..MaxTicks}
Subjects == {"a@x.com", "b@x.com", NoSub}
\* what a client may send as Authorization: nothing, a string that is no JWT,
\* a token of the server, a token signed with another key
Headers ==
    {NoToken, MalformedToken, Token("a@x.com", NoExp, "access", WRONG_KEY)}
        \cup {Token(sub, t + ACCESS_TOKEN_EXPIRE_MINUTES, "access", key) :
                sub \in Subjects, t \in Times, key \in {SECRET_KEY, WRONG_KEY}}

GuardRegister ==
    register(Account(nextUserId)[1], Account(nextUserId)[2], "testpassword123")
GuardDeleteUser ==
    \E user_id \in UserIds : UserService_delete_user(user_id)
VerifyToken ==
    \E token \in Headers \ {NoToken} : VerifyTokenCall(token)
Me ==
    \E header \in Headers : GetMe(header)
GuardedReadAuthor ==
    \E header \in Headers, author_id \in AuthorIdInputs : GetAuthor(header, author_id)
GuardedCreateAuthor ==
    \E header \in Headers : PostAuthor(header, "Tolkien", "bio")

NextGuard ==
    \/ GuardRegister
    \/ GuardDeleteUser
    \/ Tick
    \/ VerifyToken
    \/ Me
    \/ GuardedReadAuthor
    \/ GuardedCreateAuthor

SpecGuard == Init /\ [][NextGuard]_vars

(***************************************************************************)
(* Login and refresh: UserService.authenticate_user and app/api/auth.py    *)
(***************************************************************************)
\* UserService.authenticate_user: the user, or None ({})
authenticate_user(username_or_email, password) ==
    LET by_email == get_user_by_email(username_or_email)
        user == IF by_email # {} THEN by_email ELSE get_user_by_username(username_or_email)
    IN  IF username_or_email = "" \/ password = "" THEN {}
        ELSE IF user = {} THEN {}
        ELSE {u \in user : verify_password(password, u.hashed_password)}

\* headers={"WWW-Authenticate": "Bearer"} of the 401 answers
BearerChallenge == <<"WWW-Authenticate: Bearer">>

\* POST /auth/login (form fields username, password)
login_leaky(username, password) ==
    /\ resp' = LET by_email == get_user_by_email(username)
                   found == IF by_email # {} THEN by_email ELSE get_user_by_username(username)
               IN  IF found = {}
                   THEN Response("login", 0, 0, "404", "User not found", <<>>, 0)
                   ELSE Response("login", 0, 0, "401", "Incorrect email or password",
                                 BearerChallenge, 0)
    /\ UNCHANGED <<users, authors, books, nextUserId, nextAuthorId, nextBookId, now, requests>>
login(username, password) ==
    /\ resp' = LET user == authenticate_user(username, password)
               IN  IF user = {}
                   THEN Response("login", 0, 0, "401", "Incorrect email or password",
                                 BearerChallenge, 0)
                   ELSE LET u == CHOOSE u \in user : TRUE
                        IN  [Response("login", u.id, u.id, "200", "", <<>>, 0)
                             EXCEPT !.access_token =
                                        create_access_token(u.email, ACCESS_TOKEN_EXPIRE_MINUTES),
                                    !.refresh_token = create_refresh_token(u.email)]
    /\ UNCHANGED <<users, authors, books, nextUserId, nextAuthorId, nextBookId, now, requests>>

\* registration bodies and login forms of the login specification
AuthEmails == {"a@x.com", "b@x.com"}
AuthUsernames == {"alice", "bob", "a@x.com"}
AuthPasswords == {"testpassword123", "otherpass99"}
LoginIdentifiers == AuthEmails \cup AuthUsernames
LoginPasswords == AuthPasswords \cup {"wrongpassword"}

AuthRegister ==
    \E email \in AuthEmails, username \in AuthUsernames, password \in AuthPasswords :
        register(email, username, password)
AuthUpdateUser ==
    \E user_id \in UserIds, email \in AuthEmails \cup {UnsetStr},
       password \in {"otherpass99", UnsetStr} :
        UserService_update_user(user_id, email, UnsetStr, password)
AuthDeleteUser ==
    \E user_id \in UserIds : UserService_delete_user(user_id)
Login ==
    \E username \in LoginIdentifiers, password \in LoginPasswords : login(username, password)

\* verify_refresh_token: the decoded claim of a refresh token, or None ({})
verify_refresh_token(token) ==
    IF decode_error(token) # "" \/ token.typ # "refresh" THEN {}
    ELSE {[sub |-> token.sub, exp |-> token.exp, typ |-> token.typ]}

\* POST /auth/refresh
refresh_token_any_type(token) ==
    /\ resp' = LET payload == verify_token(token)
                   user == UNION {get_user_by_email(q.sub) : q \in payload}
               IN  IF payload = {}
                   THEN Response("refresh", 0, 0, "401", "Invalid refresh token",
                                 BearerChallenge, 0)
                   ELSE IF user = {}
                   THEN Response("refresh", 0, 0, "401", "User not found", BearerChallenge, 0)
                   ELSE LET u == CHOOSE u \in user : TRUE
                        IN  [Response("refresh", u.id, u.id, "200", "", <<>>, 0)
                             EXCEPT !.access_token =
                                        create_access_token(u.email, ACCESS_TOKEN_EXPIRE_MINUTES),
                                    !.refresh_token = create_refresh_token(u.email)]
    /\ UNCHANGED <<users, authors, books, nextUserId, nextAuthorId, nextBookId, now, requests>>
refresh_token_no_lookup(token) ==
    /\ resp' = LET payload == verify_refresh_token(token)
               IN  IF payload = {}
                   THEN Response("refresh", 0, 0, "401", "Invalid refresh token",
                                 BearerChallenge, 0)
                   ELSE [Response("refresh", 0, 0, "200", "", <<>>, 0)
                         EXCEPT !.access_token =
                                    create_access_token(token.sub, ACCESS_TOKEN_EXPIRE_MINUTES),
                                !.refresh_token = create_refresh_token(token.sub)]
    /\ UNCHANGED <<users, authors, books, nextUserId, nextAuthorId, nextBookId, now, requests>>
refresh_token(token) ==
    /\ resp' = LET payload == verify_refresh_token(token)
                   user == UNION {get_user_by_email(q.sub) : q \in payload}
               IN  IF payload = {}
                   THEN Response("refresh", 0, 0, "401", "Invalid refresh token",
                                 BearerChallenge, 0)
                   ELSE IF user = {}
                   THEN Response("refresh", 0, 0, "401", "User not found", BearerChallenge, 0)
                   ELSE LET u == CHOOSE u \in user : TRUE
                        IN  [Response("refresh", u.id, u.id, "200", "", <<>>, 0)
                             EXCEPT !.access_token =
                                        create_access_token(u.email, ACCESS_TOKEN_EXPIRE_MINUTES),
                                    !.refresh_token = create_refresh_token(u.email)]
    /\ UNCHANGED <<users, authors, books, nextUserId, nextAuthorId, nextBookId, now, requests>>

\* the tokens a client may hold: access and refresh tokens the server issued at
\* a time of Times, refresh tokens that expire at a time of Times, tokens signed
\* with another key, and a string that is no token
AuthTokens ==
    {MalformedToken}
        \cup {Token(sub, t + ACCESS_TOKEN_EXPIRE_MINUTES, "access", key) :
                sub \in Subjects, t \in Times, key \in {SECRET_KEY, WRONG_KEY}}
        \cup {Token(sub, t + REFRESH_TOKEN_EXPIRE_DAYS * 24 * 60, "refresh", key) :
                sub \in Subjects, t \in Times, key \in {SECRET_KEY, WRONG_KEY}}
        \cup {Token(sub, t, "refresh", SECRET_KEY) : sub \in Subjects, t \in Times}

Refresh ==
    \E token \in AuthTokens : refresh_token(token)
BearerMe ==
    \E header \in AuthTokens \cup {NoToken} : GetMe(header)

NextAuth ==
    \/ AuthRegister
    \/ AuthUpdateUser
    \/ AuthDeleteUser
    \/ Tick
    \/ Login
    \/ Refresh
    \/ BearerMe

SpecAuth == Init /\ [][NextAuth]_vars

(***************************************************************************)
(* Books over the years: the calendar year of the clock                    *)
(***************************************************************************)
MaxYearsPassed == 2
MinutesPerYear == 365 * 24 * 60
\* the service is started in the year its year check was written for
EpochYear == FUTURE_YEAR
CurrentYear == EpochYear + (now \div MinutesPerYear)
BookYears == {2023, 2024, 2025}

YearPasses ==
    /\ now + MinutesPerYear <= MaxYearsPassed * MinutesPerYear
    /\ now' = now + MinutesPerYear
    /\ UNCHANGED requests
    /\ resp' = Response("year", 0, 0, "200", "", <<>>, 0)
    /\ UNCHANGED <<users, authors, books, nextUserId, nextAuthorId, nextBookId>>
YearsRegister ==
    register(Account(nextUserId)[1], Account(nextUserId)[2], "testpassword123")
YearsCreateAuthor ==
    \E u \in users : create_new_author(u, "Tolkien", "bio")
YearsCreateBook ==
    \E u \in users, publication_year \in BookYears, author_id \in AuthorIdInputs :
        create_new_book(u, "LOTR", NoneStr, NoneStr, publication_year, author_id)
YearsUpdateBook ==
    \E u \in users, book_id \in BookIdInputs, publication_year \in BookYears :
        update_existing_book(u, book_id, UnsetStr, UnsetStr, UnsetStr, publication_year, Unset)

NextYears ==
    \/ YearPasses
    \/ YearsRegister
    \/ YearsCreateAuthor
    \/ YearsCreateBook
    \/ YearsUpdateBook

SpecYears == Init /\ [][NextYears]_vars

(***************************************************************************)
(* SpecEdit: creating and updating authors and books with every shape of   *)
(* request body, empty and null values included, while time passes.        *)
(***************************************************************************)
EditAuthorUpdateBodies ==
    {[name |-> n, biography |-> b] : n \in {UnsetStr, "Lewis", ""}, b \in {UnsetStr, "bio"}}
        \cup {[name |-> NoneStr, biography |-> UnsetStr],
              [name |-> UnsetStr, biography |-> NoneStr]}
EditBookUpdateBodies ==
    {[title |-> t, genre |-> g, publication_year |-> y, author_id |-> a] :
        t \in {UnsetStr, "Narnia"}, g \in {UnsetStr, "Fantasy"}, y \in {Unset},
        a \in {Unset} \cup AuthorIdInputs}
        \cup {[title |-> NoneStr, genre |-> UnsetStr, publication_year |-> Unset,
               author_id |-> Unset],
              [title |-> UnsetStr, genre |-> UnsetStr, publication_year |-> 2025,
               author_id |-> Unset],
              [title |-> "Narnia", genre |-> UnsetStr, publication_year |-> Unset,
               author_id |-> None]}

EditRegister ==
    users = {} /\ register(Account(nextUserId)[1], Account(nextUserId)[2], "testpassword123")
EditCreateAuthor ==
    \E u \in users, name \in {"Tolkien", ""}, biography \in {"bio", NoneStr} :
        create_new_author(u, name, biography)
EditUpdateAuthor ==
    \E u \in users, author_id \in AuthorIdInputs, body \in EditAuthorUpdateBodies :
        update_existing_author(u, author_id, body.name, body.biography)
EditCreateBook ==
    \E u \in users, author_id \in AuthorIdInputs :
        create_new_book(u, "LOTR", NoneStr, NoneStr, 2023, author_id)
EditUpdateBook ==
    \E u \in users, book_id \in BookIdInputs, body \in EditBookUpdateBodies :
        update_existing_book(u, book_id, body.title, UnsetStr, body.genre,
                             body.publication_year, body.author_id)
NextEdit ==
    \/ EditRegister
    \/ EditCreateAuthor
    \/ EditUpdateAuthor
    \/ EditCreateBook
    \/ EditUpdateBook

SpecEdit == Init /\ [][NextEdit]_vars

(***************************************************************************)
(* Properties of the resource store                                        *)
(***************************************************************************)
AuthorOps == {"read_author", "update_author", "delete_author"}
BookOps == {"read_book", "update_book", "delete_book"}
NotFoundDetail(op) == IF op \in AuthorOps THEN "Author not found" ELSE "Book not found"

\* the rows with this id that the caller does not own, before the request
ForeignRows(op, caller, id) ==
    IF op \in AuthorOps
    THEN {a \in authors : a.id = id /\ a.user_id # caller}
    ELSE {b \in books : b.id = id /\ b.user_id # caller}
\* no row has this id, before the request
MissingRow(op, id) ==
    IF op \in AuthorOps
    THEN \A a \in authors : a.id # id
    ELSE \A b \in books : b.id # id

\* C1: a get, update or delete by id of a row owned by another registered user
\* is answered 404 with the response an id that does not exist gets, and no
\* author and no book changes.
C1_CrossUserIsNotFound ==
    [][(resp'.op \in AuthorOps \cup BookOps)
        => /\ ForeignRows(resp'.op, resp'.caller, resp'.id) # {}
                => /\ resp'.status = "404"
                   /\ resp'.status # "403"
                   /\ authors' = authors
                   /\ books' = books
           /\ (ForeignRows(resp'.op, resp'.caller, resp'.id) # {}
                \/ MissingRow(resp'.op, resp'.id))
                => resp' = Response(resp'.op, resp'.caller, resp'.id, "404",
                                    NotFoundDetail(resp'.op), <<>>, 0)]_vars

\* C1 witness: user U1 was answered 404 on updating a book that exists and
\* belongs to another registered user
C1_Witness ==
    /\ resp.op = "update_book"
    /\ resp.status = "404"
    /\ \E b \in books, u1, u2 \in users :
          /\ b.id = resp.id
          /\ u1.id = resp.caller
          /\ u2.id = b.user_id
          /\ u1.id # u2.id

\* C2: every stored book's author_id is the id of a stored author with the
\* book's user_id.
C2_BookAuthorSameOwner ==
    \A b \in books : \E a \in authors : a.id = b.author_id /\ a.user_id = b.user_id

\* C2 witness: a book was moved to the second author by a successful update
C2_Witness ==
    /\ resp.op = "update_book"
    /\ resp.status = "200"
    /\ \E b \in books : b.id = resp.id /\ b.author_id = 2
    /\ Cardinality(authors) = 2

\* the request names an author that is not stored or belongs to another user
InvalidAuthorRef(author_id, user_id) ==
    ~(\E a \in authors : a.id = author_id /\ a.user_id = user_id)

\* C6: creating a book, or updating a stored book of the caller with an
\* author_id, where the author named is not stored or belongs to another user,
\* is answered 400 and leaves the books table as it was.
C6_InvalidAuthorIs400 ==
    [][/\ \A u \in users, body \in BookCreateBodies :
            (/\ create_new_book(u, body.title, NoneStr, NoneStr, body.publication_year,
                                body.author_id)
             /\ InvalidAuthorRef(body.author_id, u.id))
            => (resp'.status = "400" /\ books' = books)
       /\ \A u \in users, book_id \in BookIdInputs, body \in BookUpdateBodies :
            (/\ update_existing_book(u, book_id, body.title, UnsetStr, UnsetStr,
                                     body.publication_year, body.author_id)
             /\ body.author_id # Unset
             /\ \E b \in books : b.id = book_id /\ b.user_id = u.id
             /\ InvalidAuthorRef(body.author_id, u.id))
            => (resp'.status = "400" /\ books' = books)]_vars

\* C9: a successful delete of an author removes that author and exactly the
\* books that referenced it; the owner's get of the author id and of each such
\* book id is then answered 404; every other author and book is unchanged.
C9_AuthorDeleteCascades ==
    [][\A author_id \in AuthorIdInputs, owner \in UserIds :
        (resp'.op = "delete_author" /\ resp'.status = "200"
            /\ resp'.id = author_id /\ resp'.caller = owner)
        => LET gone == {a \in authors : a.id = author_id /\ a.user_id = owner}
               orphans == {b \in books : b.author_id = author_id}
           IN  /\ gone # {}
               /\ authors' = authors \ gone
               /\ books' = books \ orphans
               /\ \A b \in books' : b.author_id # author_id
               /\ get_author(author_id, owner)' = {}
               /\ \A b \in orphans : get_user_book(owner, b.id)' = {}]_vars

\* C9 witness: an author with a book was deleted while the owner keeps another
\* author with a book of its own
C9_Witness ==
    /\ resp.op = "delete_author"
    /\ resp.status = "200"
    /\ nextBookId = 3
    /\ Cardinality(books) = 1
    /\ \E a \in authors, b \in books :
          a.user_id = resp.caller /\ b.author_id = a.id /\ a.id # resp.id

\* C10: the delete of a user removes every author and every book with that
\* user_id and leaves every row of the other users as it was.
C10_UserDeleteCascades ==
    [][(resp'.op = "delete_user" /\ resp'.status = "True")
        => /\ users' = {u \in users : u.id # resp'.id}
           /\ authors' = {a \in authors : a.user_id # resp'.id}
           /\ books' = {b \in books : b.user_id # resp'.id}]_vars

\* C10 witness: a user was deleted and another user's author and book are stored
C10_Witness ==
    /\ resp.op = "delete_user"
    /\ resp.status = "True"
    /\ nextAuthorId = 3
    /\ nextBookId = 3
    /\ Cardinality(authors) = 1
    /\ Cardinality(books) = 1
    /\ \A a \in authors : a.user_id # resp.id

(***************************************************************************)
(* Properties of the user directory                                        *)
(***************************************************************************)
\* C3: no two users share an email and no two users share a username.
C3_UniqueIdentity ==
    \A u1, u2 \in users :
        u1 # u2 => (u1.email # u2.email /\ u1.username # u2.username /\ u1.id # u2.id)

\* C3 witness: with two users stored, an update to the other user's email or
\* username was refused by the storage constraint
C3_Witness ==
    /\ resp.op = "update_user"
    /\ resp.status = "IntegrityError"
    /\ Cardinality(users) = 2

\* a request that names a registered email and not the username registered with it
DuplicateEmail(email, username) ==
    /\ \E u \in users : u.email = email
    /\ \A u \in users : u.email = email => u.username # username
\* a request that names an unused email and a registered username
DuplicateUsername(email, username) ==
    /\ \A u \in users : u.email # email
    /\ \E u \in users : u.username = username
\* the request passes the format, length and weak-password rules
PassesValidation(email, username, password) ==
    /\ HasAt(email) /\ HasDot(email)
    /\ StrLen(password) >= 8
    /\ Lower(password) \notin {"password", "123456", "qwerty", "admin"}
    /\ StrLen(username) >= 3

C8_ListsOnlyOwnRows ==
    (resp.op \in {"read_authors", "read_books"} /\ resp.status = "200")
    => /\ \A i \in 1..Len(resp.items) :
            /\ resp.items[i].user_id = resp.caller
            /\ resp.items[i] \in (IF resp.op = "read_authors" THEN authors ELSE books)
       /\ resp.op = "read_books"
            => resp.total <= Cardinality({b \in books : b.user_id = resp.caller})

\* C8 witness: a book list with a row was returned to a caller while another
\* user's book is stored
C8_Witness ==
    /\ resp.op = "read_books"
    /\ resp.status = "200"
    /\ Len(resp.items) >= 1
    /\ \E b \in books : b.user_id # resp.caller

(***************************************************************************)
(* Properties of the guard and of the token service                        *)
(***************************************************************************)
\* the token is a JWT of the server that has not expired
Verifies(token) ==
    /\ ~token.malformed
    /\ token.key = SECRET_KEY
    /\ now < token.exp

\* C4: a protected request without a bearer header is answered 403 'Not
\* authenticated'; with a token that does not verify, has no subject, or whose
\* subject is no stored user's email, 401 'Could not validate credentials'; and
\* otherwise the handler runs as the user whose email is the token's subject.
C4_GuardBeforeHandler ==
    [][\A header \in Headers, author_id \in AuthorIdInputs :
        (resp'.op = "read_author" /\ resp'.id = author_id /\ GetAuthor(header, author_id))
        => LET resolved == {u \in users : header # NoToken /\ Verifies(header)
                                          /\ header.sub # NoSub /\ u.email = header.sub}
           IN  /\ header = NoToken
                    => resp' = Response("read_author", 0, author_id, "403",
                                        "Not authenticated", <<>>, 0)
               /\ (header # NoToken /\ resolved = {})
                    => resp' = Response("read_author", 0, author_id, "401",
                                        "Could not validate credentials", <<>>, 0)
               /\ resolved # {}
                    => /\ resp'.status \in {"200", "404"}
                       /\ \A u \in resolved : resp'.caller = u.id
                       /\ \A i \in 1..Len(resp'.items) :
                             \A u \in resolved : resp'.items[i].user_id = u.id]_vars

\* C4 witness: the handler ran for the user a token resolved to, after time
\* passed and a user was deleted
C4_Witness ==
    /\ resp.op = "read_author"
    /\ resp.status = "200"
    /\ resp.caller = 2
    /\ now > 0
    /\ Cardinality(users) = 1

\* C5: verify_token returns the claim exactly for a well-formed token signed
\* with the server secret before its expiry, and None for every other token;
\* it has no other outcome.
C5_VerifyIffSignedAndFresh ==
    [][\A token \in Headers \ {NoToken} :
        (resp'.op = "verify_token" /\ VerifyTokenCall(token))
        => /\ resp'.status \in {"claim", "None"}
           /\ resp'.status = "claim" <=> Verifies(token)
           /\ resp'.status = "claim"
                => (resp'.detail = token.sub /\ resp'.items[1].exp = token.exp)]_vars

\* C5 witness: a token issued at time 0 verified after time had passed, before
\* its expiry
C5_Witness ==
    /\ resp.op = "verify_token"
    /\ resp.status = "claim"
    /\ now > 0
    /\ resp.items[1].exp = ACCESS_TOKEN_EXPIRE_MINUTES

(***************************************************************************)
(* Properties of login and refresh                                         *)
(***************************************************************************)
\* C11: for every stored user, a login with the user's password answers 200 with
\* an access token, when the identifier is the user's email and when it is the
\* user's username.
C11_LoginSucceeds ==
    [][\A u \in users, password \in LoginPasswords :
        \A identifier \in {u.email, u.username} :
            (resp'.op = "login" /\ verify_password(password, u.hashed_password)
                /\ login(identifier, password))
            => /\ resp'.status = "200"
               /\ resp'.access_token # NoToken]_vars

Uniform401 ==
    Response("login", 0, 0, "401", "Incorrect email or password", BearerChallenge, 0)
NoSuchUser(identifier) ==
    ~\E u \in users : u.email = identifier \/ u.username = identifier
WrongPassword(identifier, password) ==
    /\ \E u \in users : u.email = identifier \/ u.username = identifier
    /\ \A u \in users :
          (u.email = identifier \/ u.username = identifier)
          => ~verify_password(password, u.hashed_password)

\* C12: a login that fails is answered by one and the same response (401,
\* 'Incorrect email or password', WWW-Authenticate: Bearer), whether the
\* identifier matches no user or matches a user whose password is wrong; the
\* response of a failed login carries nothing of the directory's state.
C12_FailedLoginUniform ==
    [][\A username \in LoginIdentifiers, password \in LoginPasswords :
        (resp'.op = "login" /\ login(username, password))
        => /\ resp'.status # "200" => resp' = Uniform401
           /\ NoSuchUser(username) => resp' = Uniform401
           /\ WrongPassword(username, password) => resp' = Uniform401]_vars

\* C12 witness: a login failed while every identifier of the form belongs to a
\* stored user, so the failure is one of a wrong password
C12_Witness ==
    /\ resp = Uniform401
    /\ \A identifier \in {"a@x.com", "b@x.com", "alice", "bob"} : ~NoSuchUser(identifier)

VerifiesAs(token, typ) ==
    /\ ~token.malformed
    /\ token.key = SECRET_KEY
    /\ now < token.exp
    /\ token.typ = typ

C14_RefreshPairOr401 ==
    [][\A token \in AuthTokens :
        (resp'.op = "refresh" /\ refresh_token(token))
        => LET ok == VerifiesAs(token, "refresh") /\ \E u \in users : u.email = token.sub
           IN  /\ ok => /\ resp'.status = "200"
                        /\ resp'.access_token =
                              Token(token.sub, now + ACCESS_TOKEN_EXPIRE_MINUTES,
                                    "access", SECRET_KEY)
                        /\ resp'.refresh_token =
                              Token(token.sub, now + REFRESH_TOKEN_EXPIRE_DAYS * 24 * 60,
                                    "refresh", SECRET_KEY)
                        /\ \E u \in users : u.email = resp'.access_token.sub
                                            /\ u.id = resp'.caller
               /\ ~ok => /\ resp'.status = "401"
                         /\ resp'.access_token = NoToken
                         /\ resp'.refresh_token = NoToken]_vars

\* C14 witness: a pair was issued after time had passed and a user was deleted
C14_Witness ==
    /\ resp.op = "refresh"
    /\ resp.status = "200"
    /\ now > 0
    /\ Cardinality(users) = 1
    /\ nextUserId > MaxUserId

(***************************************************************************)
(* Properties of the list operations                                       *)
(***************************************************************************)
\* the book satisfies every filter the request supplied (None: not supplied)
Matches(b, author_id, genre, publication_year) ==
    /\ author_id # None => b.author_id = author_id
    /\ genre # NoneStr => b.genre = genre
    /\ publication_year # None => b.publication_year = publication_year
OwnMatching(u, author_id, genre, publication_year) ==
    {b \in books : b.user_id = u.id /\ Matches(b, author_id, genre, publication_year)}
Max(a, b) == IF a >= b THEN a ELSE b
AuthorFilters == {None, 0} \cup (1..MaxAuthorId)
GenreFilters == {NoneStr, ""} \cup Genres
YearFilters == {None, 2023}

\* C15: a list request with skip >= 0 and 1 <= limit <= 100 by a caller owning
\* n rows that satisfy the supplied filters returns exactly
\* min(limit, max(0, n - skip)) rows, for authors and for books.
C15_PageLength ==
    [][\A u \in users, skip \in Skips, limit \in Limits :
        (resp'.caller = u.id /\ resp'.status = "200" /\ PageQuery_valid(skip, limit))
        => /\ (resp'.op = "read_authors" /\ read_authors(u, skip, limit))
              => LET n == Cardinality({a \in authors : a.user_id = u.id})
                 IN  Len(resp'.items) = Min(limit, Max(0, n - skip))
           /\ \A author_id \in AuthorFilters, genre \in GenreFilters,
                 publication_year \in YearFilters :
                 (resp'.op = "read_books"
                     /\ read_books(u, skip, limit, author_id, genre, publication_year))
                 => LET n == Cardinality(OwnMatching(u, author_id, genre, publication_year))
                    IN  Len(resp'.items) = Min(limit, Max(0, n - skip))]_vars

\* C16: a book list answered for skip >= 0 and 1 <= limit <= 100 reports
\* page = floor(skip / limit) + 1, pages = ceil(total / limit),
\* has_next = (skip + limit < total), has_prev = (skip > 0), size = the number
\* of rows of the page, and total = the number of the caller's books that
\* satisfy the supplied filters, whatever skip and limit are.
C16_PageMetadata ==
    [][\A u \in users, skip \in Skips, limit \in Limits :
        (resp'.op = "read_books" /\ resp'.caller = u.id /\ resp'.status = "200"
            /\ PageQuery_valid(skip, limit))
        => \A author_id \in AuthorFilters, genre \in GenreFilters,
              publication_year \in YearFilters :
              read_books(u, skip, limit, author_id, genre, publication_year)
              => LET total == Cardinality(OwnMatching(u, author_id, genre, publication_year))
                 IN  /\ resp'.total = total
                     /\ resp'.meta.page = (skip \div limit) + 1
                     /\ resp'.meta.pages * limit >= total
                     /\ (resp'.meta.pages - 1) * limit < total \/ (total = 0 /\ resp'.meta.pages = 0)
                     /\ resp'.meta.has_next = (skip + limit < total)
                     /\ resp'.meta.has_prev = (skip > 0)
                     /\ resp'.meta.size = Len(resp'.items)]_vars

\* C17: every book a book list returns satisfies every filter the request
\* supplied (author_id, genre, publication_year), and total is the number of
\* the caller's books that satisfy them.
C17_FiltersApply ==
    [][\A u \in users, skip \in Skips, limit \in Limits :
        (resp'.op = "read_books" /\ resp'.caller = u.id /\ resp'.status = "200"
            /\ PageQuery_valid(skip, limit))
        => \A author_id \in AuthorFilters, genre \in GenreFilters,
              publication_year \in YearFilters :
              read_books(u, skip, limit, author_id, genre, publication_year)
              => /\ \A i \in 1..Len(resp'.items) :
                       Matches(resp'.items[i], author_id, genre, publication_year)
                 /\ resp'.total =
                       Cardinality(OwnMatching(u, author_id, genre, publication_year))]_vars

(***************************************************************************)
(* Properties of the book rules                                            *)
(***************************************************************************)
\* C18: a create or an update of a book that names an author of the caller is
\* rejected with a validation error (400) exactly when the supplied
\* publication_year is greater than the current year at the time of the
\* request; every year up to and including the current year is accepted.
C18_FutureYearRejected ==
    [][\A u \in users, publication_year \in BookYears :
        /\ \A author_id \in AuthorIdInputs :
              (resp'.op = "create_book" /\ get_author(author_id, u.id) # {}
                  /\ create_new_book(u, "LOTR", NoneStr, NoneStr, publication_year, author_id))
              => /\ resp'.status = "400" <=> publication_year > CurrentYear
                 /\ resp'.status = "200" <=> publication_year <= CurrentYear
        /\ \A book_id \in BookIdInputs :
              (resp'.op = "update_book" /\ get_user_book(u.id, book_id) # {}
                  /\ update_existing_book(u, book_id, UnsetStr, UnsetStr, UnsetStr,
                                          publication_year, Unset))
              => /\ resp'.status = "400" <=> publication_year > CurrentYear
                 /\ resp'.status = "200" <=> publication_year <= CurrentYear]_vars

\* C19: a create of a book with a title and an author of the caller, and with
\* description, genre and publication_year left out, is answered 200 and stores
\* the book with the three attributes empty; it is never an unhandled fault.
C19_OptionalFieldsOmitted ==
    [][\A u \in users, title \in Titles, author_id \in AuthorIdInputs :
        (resp'.op = "create_book" /\ get_author(author_id, u.id) # {}
            /\ create_new_book(u, title, NoneStr, NoneStr, None, author_id))
        => /\ resp'.status = "200"
           /\ \E b \in books' \ books :
                 /\ b.title = title /\ b.author_id = author_id /\ b.user_id = u.id
                 /\ b.description = NoneStr /\ b.genre = NoneStr
                 /\ b.publication_year = None]_vars

(***************************************************************************)
(* Properties of registration                                              *)
(***************************************************************************)
\* C20: a registration is rejected and creates no user when the password is
\* shorter than 8 or longer than 128 characters, when its lower case is on the
\* weak-password list, when the username is shorter than 3 characters, or when
\* the email lacks '@' or '.'; otherwise, with an unused email and an unused
\* username, it creates exactly one user.
C20_RegistrationRules ==
    [][\A email \in EmailInputs, username \in UsernameInputs, password \in PasswordInputs :
        (resp'.op = "register" /\ register(email, username, password))
        => LET bad == \/ StrLen(password) < 8
                      \/ StrLen(password) > MAX_PASSWORD_LENGTH
                      \/ Lower(password) \in {"password", "123456", "qwerty", "admin"}
                      \/ StrLen(username) < 3
                      \/ ~HasAt(email) \/ ~HasDot(email)
               unused == \A u \in users : u.email # email /\ u.username # username
           IN  /\ bad => (resp'.status \in {"400", "422"} /\ users' = users)
               /\ (~bad /\ unused)
                     => /\ resp'.status = "200"
                        /\ \E row \in users' :
                              /\ row \notin users
                              /\ users' = users \cup {row}
                              /\ row.email = email /\ row.username = username]_vars

(***************************************************************************)
(* SpecSessions: get_db (app/db/base.py).  A request that depends on       *)
(* get_db runs the generator up to its yield, then the handler, which      *)
(* returns or raises, then the rest of the generator.  requests[r].closes  *)
(* counts the calls of db.close() on the request's session.                *)
(***************************************************************************)
MaxRequests == 3

\* a generator that closes the session only after a handler that returned
get_db_no_finally(outcome) == outcome = "returned"

\* try: yield db / finally: db.close() : the close runs on both outcomes
get_db_closes(outcome) == outcome \in {"returned", "raised"}

\* db = SessionLocal(); yield db
GetDbYield ==
    /\ \E r \in (1..MaxRequests) \ DOMAIN requests :
          requests' = requests @@ (r :> [pc |-> "handler", outcome |-> "", closes |-> 0])
    /\ UNCHANGED <<users, authors, books, nextUserId, nextAuthorId, nextBookId, now, resp>>

HandlerReturns ==
    /\ \E r \in DOMAIN requests :
          /\ requests[r].pc = "handler"
          /\ requests' = [requests EXCEPT ![r].pc = "exit", ![r].outcome = "returned"]
    /\ UNCHANGED <<users, authors, books, nextUserId, nextAuthorId, nextBookId, now, resp>>

\* the exception is thrown into the generator at its yield
HandlerRaises ==
    /\ \E r \in DOMAIN requests :
          /\ requests[r].pc = "handler"
          /\ requests' = [requests EXCEPT ![r].pc = "exit", ![r].outcome = "raised"]
    /\ UNCHANGED <<users, authors, books, nextUserId, nextAuthorId, nextBookId, now, resp>>

GetDbExit ==
    /\ \E r \in DOMAIN requests :
          /\ requests[r].pc = "exit"
          /\ requests' = [requests EXCEPT
                ![r].pc = "ended",
                ![r].closes = @ + (IF get_db_closes(requests[r].outcome) THEN 1 ELSE 0)]
    /\ UNCHANGED <<users, authors, books, nextUserId, nextAuthorId, nextBookId, now, resp>>

NextSessions ==
    \/ GetDbYield
    \/ HandlerReturns
    \/ HandlerRaises
    \/ GetDbExit

SpecSessions == Init /\ [][NextSessions]_vars

(***************************************************************************)
(* SpecRate: the rate-limit key (app/core/rate_limiter.py).  An            *)
(* Authorization header is its scheme word and the text after the first    *)
(* space; NoHeader is a request without the header.                        *)
(***************************************************************************)
NoHeader == [scheme |-> "", token |-> NoToken]
RateHeaders ==
    {NoHeader} \cup
    {[scheme |-> sc, token |-> t] :
        sc \in {"Bearer", "bearer", "Basic"},
        t \in {MalformedToken} \cup
              {Token(sub, t0 + ACCESS_TOKEN_EXPIRE_MINUTES, typ, key) :
                  sub \in {"a@x.com", "", NoSub}, t0 \in {0, TickMinutes},
                  typ \in {"access", "refresh"}, key \in {SECRET_KEY, WRONG_KEY}}}

\* a key function that takes the token of any authorization scheme
get_user_key_any_scheme(auth_header, remote_address) ==
    LET payload == IF auth_header = NoHeader THEN {} ELSE verify_token(auth_header.token)
    IN  IF \E p \in payload : p.sub \notin {NoSub, ""}
        THEN [kind |-> "user", value |-> (CHOOSE p \in payload : TRUE).sub]
        ELSE [kind |-> "ip", value |-> remote_address]

get_user_key(auth_header, remote_address) ==
    LET payload == IF auth_header # NoHeader /\ auth_header.scheme = "Bearer"
                   THEN verify_token(auth_header.token)
                   ELSE {}
    IN  IF \E p \in payload : p.sub \notin {NoSub, ""}
        THEN [kind |-> "user", value |-> (CHOOSE p \in payload : TRUE).sub]
        ELSE [kind |-> "ip", value |-> remote_address]

\* a request to a rate-limited route: the limiter computes its key
RateLimitKey ==
    /\ \E auth_header \in RateHeaders, remote_address \in {"127.0.0.1", "10.0.0.7"} :
          /\ requests' = (1 :> [header |-> auth_header, addr |-> remote_address])
          /\ resp' = Response("rate_limit_key", 0, 0, "200", "",
                              <<get_user_key(auth_header, remote_address)>>, 0)
    /\ UNCHANGED <<users, authors, books, nextUserId, nextAuthorId, nextBookId, now>>

NextRate ==
    \/ RateLimitKey
    \/ Tick

SpecRate == Init /\ [][NextRate]_vars

(***************************************************************************)
(* SpecTokens: clients keep the access token of their registration         *)
(* response and use it later, while accounts are registered, change their  *)
(* email and are deleted.  requests[k] is a kept token with the id of the  *)
(* user it was issued to.                                                  *)
(***************************************************************************)
ClientKeepsToken ==
    /\ resp.op = "register" /\ resp.status = "200"
    /\ \A k \in DOMAIN requests : requests[k].user_id # resp.id
    /\ requests' = requests @@
                      ((Cardinality(DOMAIN requests) + 1) :>
                          [token |-> resp.access_token, user_id |-> resp.id])
    /\ UNCHANGED <<users, authors, books, nextUserId, nextAuthorId, nextBookId, now, resp>>

\* GET /auth/me with a kept token
KeptTokenMe ==
    \E k \in DOMAIN requests : GetMe(requests[k].token)

NextTokens ==
    \/ RegisterAccount
    \/ ChangeEmail
    \/ DeleteUser
    \/ ClientKeepsToken
    \/ KeptTokenMe

SpecTokens == Init /\ [][NextTokens]_vars

(***************************************************************************)
(* SpecRace: concurrent requests.  A handler that checks and then inserts  *)
(* runs in two steps, and other requests may commit between them.          *)
(* requests[r] is a request in flight or finished: pc is "insert" after    *)
(* its checks passed and "done" with its response status at its end.       *)
(***************************************************************************)
\* register up to the INSERT: UserCreate validation and UserService.create_user's checks
RaceRegisterCheck ==
    /\ \E r \in (1..MaxRequests) \ DOMAIN requests,
          email \in {"a@x.com", "b@x.com"}, username \in {"alice", "bob"} :
          LET err == create_user_error(email, username, "testpassword123")
              req == [op |-> "register", email |-> email, username |-> username,
                      user_id |-> 0, author_id |-> 0]
          IN  requests' = requests @@
                (r :> IF err # "" THEN req @@ [pc |-> "done", status |-> "400"]
                      ELSE req @@ [pc |-> "insert", status |-> ""])
    /\ UNCHANGED <<users, authors, books, nextUserId, nextAuthorId, nextBookId, now, resp>>

\* crud create_user: INSERT and commit; the unique indexes of users.email and
\* users.username reject a duplicate with IntegrityError, which register does not catch
RaceRegisterInsert ==
    /\ \E r \in DOMAIN requests :
          /\ requests[r].op = "register" /\ requests[r].pc = "insert"
          /\ LET table == crud_create_user(requests[r].email, requests[r].username,
                                           "testpassword123")
             IN  IF ~UsersUnique(table)
                 THEN /\ UNCHANGED <<users, nextUserId>>
                      /\ requests' = [requests EXCEPT ![r].pc = "done", ![r].status = "500"]
                      /\ resp' = Response("register", 0, 0, "500", "Internal Server Error",
                                          <<>>, 0)
                 ELSE /\ nextUserId <= MaxUserId
                      /\ users' = table
                      /\ nextUserId' = nextUserId + 1
                      /\ requests' = [requests EXCEPT ![r].pc = "done", ![r].status = "200"]
                      /\ resp' = Response("register", 0, nextUserId, "200", "",
                                          OrderById({u \in table : u.id = nextUserId}), 0)
    /\ UNCHANGED <<authors, books, nextAuthorId, nextBookId, now>>

\* POST /books/ up to the INSERT: the checks of BookService.create_book and crud create_book
RaceCreateBookCheck ==
    /\ \E r \in (1..MaxRequests) \ DOMAIN requests, u \in users, author_id \in AuthorIdInputs :
          LET err == create_book_error(u.id, 2023, author_id)
              req == [op |-> "create_book", email |-> "", username |-> "",
                      user_id |-> u.id, author_id |-> author_id]
          IN  requests' = requests @@
                (r :> IF err # "" THEN req @@ [pc |-> "done", status |-> "400"]
                      ELSE req @@ [pc |-> "insert", status |-> ""])
    /\ UNCHANGED <<users, authors, books, nextUserId, nextAuthorId, nextBookId, now, resp>>

\* db.add(db_book); db.commit(): when the author row is gone, a store that enforces
\* ForeignKey("authors.id") raises IntegrityError, which nothing catches, and a store
\* that does not enforce it (SQLite without foreign_keys) commits the row
RaceCreateBookInsert ==
    /\ \E r \in DOMAIN requests :
          /\ requests[r].op = "create_book" /\ requests[r].pc = "insert"
          /\ nextBookId <= MaxBookId
          /\ LET row == [id |-> nextBookId, title |-> "LOTR", description |-> NoneStr,
                         genre |-> NoneStr, publication_year |-> 2023,
                         author_id |-> requests[r].author_id,
                         user_id |-> requests[r].user_id,
                         created_at |-> now, updated_at |-> None]
                 stored ==
                     /\ books' = books \cup {row}
                     /\ nextBookId' = nextBookId + 1
                     /\ requests' = [requests EXCEPT ![r].pc = "done", ![r].status = "200"]
                     /\ resp' = Response("create_book", row.user_id, row.id, "200", "",
                                         <<row>>, 0)
                 fault ==
                     /\ UNCHANGED <<books, nextBookId>>
                     /\ requests' = [requests EXCEPT ![r].pc = "done", ![r].status = "500"]
                     /\ resp' = Response("create_book", row.user_id, 0, "500",
                                         "Internal Server Error", <<>>, 0)
             IN  IF \E a \in authors : a.id = row.author_id
                 THEN stored
                 ELSE stored \/ fault
    /\ UNCHANGED <<users, authors, nextUserId, nextAuthorId, now>>

NextRace ==
    \/ RaceRegisterCheck
    \/ RaceRegisterInsert
    \/ EditCreateAuthor
    \/ DeleteAuthor
    \/ RaceCreateBookCheck
    \/ RaceCreateBookInsert

SpecRace == Init /\ [][NextRace]_vars

(***************************************************************************)
(* SpecPages: book lists over every skip and limit, unfiltered and         *)
(* filtered by author.                                                     *)
(***************************************************************************)
PagesReadBooks ==
    \E u \in users, skip \in Skips, limit \in Limits, author_id \in {None, 0, 1} :
        read_books(u, skip, limit, author_id, NoneStr, None)

NextPages ==
    \/ ListRegister
    \/ ListCreateAuthor
    \/ ListCreateBook
    \/ PagesReadBooks

SpecPages == Init /\ [][NextPages]_vars

(***************************************************************************)
(* C21: in every reachable state every stored Author has a non-empty name  *)
(* and a non-empty biography.                                              *)
(***************************************************************************)
C21_StoredAuthorsNonEmpty ==
    \A a \in authors : a.name \notin {"", NoneStr} /\ a.biography \notin {"", NoneStr}

(***************************************************************************)
(* C22: a successful update of an Author or Book changes exactly the       *)
(* supplied fields and leaves every other field of the row, its id, its    *)
(* user_id and every other row unchanged.  C22_UpdateChangesOnlySupplied   *)
(* is that statement for every field of the row; C22_UpdateFrame exempts   *)
(* updated_at, which the store sets to the time of the update.             *)
(***************************************************************************)
Supplied(old, new) == IF new = UnsetStr THEN old ELSE new
SuppliedInt(old, new) == IF new = Unset THEN old ELSE new

AuthorFrame(author_id, body, with_updated_at) ==
    /\ users' = users /\ books' = books
    /\ {a.id : a \in authors'} = {a.id : a \in authors}
    /\ \A a \in authors : a.id # author_id => a \in authors'
    /\ \A a \in authors : a.id = author_id =>
          \E n \in authors' :
              /\ n.id = a.id /\ n.user_id = a.user_id /\ n.created_at = a.created_at
              /\ n.name = Supplied(a.name, body.name)
              /\ n.biography = Supplied(a.biography, body.biography)
              /\ with_updated_at => n.updated_at = a.updated_at

BookFrame(book_id, body, with_updated_at) ==
    /\ users' = users /\ authors' = authors
    /\ {b.id : b \in books'} = {b.id : b \in books}
    /\ \A b \in books : b.id # book_id => b \in books'
    /\ \A b \in books : b.id = book_id =>
          \E n \in books' :
              /\ n.id = b.id /\ n.user_id = b.user_id /\ n.created_at = b.created_at
              /\ n.title = Supplied(b.title, body.title)
              /\ n.description = b.description
              /\ n.genre = Supplied(b.genre, body.genre)
              /\ n.publication_year = SuppliedInt(b.publication_year, body.publication_year)
              /\ n.author_id = SuppliedInt(b.author_id, body.author_id)
              /\ with_updated_at => n.updated_at = b.updated_at

UpdateFrame(with_updated_at) ==
    /\ (resp'.op = "update_author" /\ resp'.status = "200") =>
          \A u \in users, author_id \in {resp'.id}, body \in EditAuthorUpdateBodies :
              update_existing_author(u, author_id, body.name, body.biography)
                  => AuthorFrame(author_id, body, with_updated_at)
    /\ (resp'.op = "update_book" /\ resp'.status = "200") =>
          \A u \in users, book_id \in {resp'.id}, body \in EditBookUpdateBodies :
              update_existing_book(u, book_id, body.title, UnsetStr, body.genre,
                                   body.publication_year, body.author_id)
                  => BookFrame(book_id, body, with_updated_at)

C23_RegisterReturnsTokenPair ==
    (resp.op = "register" /\ resp.status = "200") =>
        /\ Len(resp.items) = 1 /\ resp.items[1] \in users
        /\ resp.access_token # NoToken
        /\ resp.refresh_token # NoToken

(***************************************************************************)
(* C24: a request that acquired a session through get_db has closed it     *)
(* exactly once when the request has ended, whether its handler returned   *)
(* or raised, and not before.                                              *)
(***************************************************************************)
C24_SessionClosedOnce ==
    \A r \in DOMAIN requests :
        requests[r].closes = (IF requests[r].pc = "ended" THEN 1 ELSE 0)

C24_Witness ==
    \E r, q \in DOMAIN requests :
        /\ requests[r].pc = "ended" /\ requests[r].outcome = "raised"
        /\ requests[q].pc = "ended" /\ requests[q].outcome = "returned"

(***************************************************************************)
(* C25: the rate-limit key is user:<subject> exactly when the header       *)
(* starts with 'Bearer ' and its token is signed by the server, unexpired  *)
(* and carries a non-empty subject; otherwise it is ip:<source address>;   *)
(* a key is computed for every request.                                    *)
(***************************************************************************)
BearerSubject(header) ==
    /\ header # NoHeader /\ header.scheme = "Bearer"
    /\ Verifies(header.token)
    /\ header.token.sub \notin {NoSub, ""}

C25_RateLimitKey ==
    resp.op = "rate_limit_key" =>
        /\ resp.status = "200" /\ Len(resp.items) = 1
        /\ resp.items[1] = IF BearerSubject(requests[1].header)
                           THEN [kind |-> "user", value |-> requests[1].header.token.sub]
                           ELSE [kind |-> "ip", value |-> requests[1].addr]

C25_Witness ==
    /\ resp.op = "rate_limit_key" /\ resp.items[1].kind = "user"
    /\ requests[1].header.token.typ = "refresh" /\ now > 0

(***************************************************************************)
(* C26: a token that passes the Authorization Guard resolves to the User   *)
(* id it was issued for, in every state reachable through registrations,   *)
(* email updates and deletions.                                            *)
(***************************************************************************)
C26_TokenKeepsIdentity ==
    \A k \in DOMAIN requests :
        LET auth == get_current_user(requests[k].token)
        IN  auth.status = "ok" => \A u \in auth.user : u.id = requests[k].user_id

(***************************************************************************)
(* C27: under any interleaving of concurrent requests of a user, no        *)
(* committed state holds a Book whose author_id refers to a missing        *)
(* Author, and no create-book request ends in an unhandled fault.          *)
(***************************************************************************)
C27_NoDanglingBookNoFault ==
    /\ \A b \in books : \E a \in authors : a.id = b.author_id
    /\ \A r \in DOMAIN requests :
          (requests[r].op = "create_book" /\ requests[r].pc = "done")
              => requests[r].status \in {"200", "400"}

(***************************************************************************)
(* C28: of concurrent registrations with the same email or username at     *)
(* most one creates a User and the others end with the 400 business        *)
(* error, never with an unhandled storage fault.                           *)
(***************************************************************************)
C28_ConcurrentRegistration ==
    /\ UsersUnique(users)
    /\ \A r \in DOMAIN requests :
          (requests[r].op = "register" /\ requests[r].pc = "done")
              => requests[r].status \in {"200", "400"}

(***************************************************************************)
(* C29: an update of a Book id that does not exist or is owned by another  *)
(* user is answered with the same 404 'Book not found' whatever its body,  *)
(* and changes no book.                                                    *)
(***************************************************************************)
C29_UpdateOfForeignBookIsNotFound ==
    [][(/\ resp'.op = "update_book"
        /\ \A b \in books : ~(b.id = resp'.id /\ b.user_id = resp'.caller))
        => /\ resp' = Response("update_book", resp'.caller, resp'.id, "404",
                                "Book not found", <<>>, 0)
           /\ books' = books]_vars

\* C29 witness: a user who owns no author, so that no author_id in a body could be
\* valid, was answered 404 on updating a book that another user owns
C29_Witness ==
    /\ resp.op = "update_book" /\ resp.status = "404"
    /\ \E b \in books : b.id = resp.id /\ b.user_id # resp.caller
    /\ \E u \in users : u.id = resp.caller
    /\ \A a \in authors : a.user_id # resp.caller

(***************************************************************************)
(* C30: for every book list answered for skip >= 0 and 1 <= limit <= 100,  *)
(* with the rows that total counts numbered 1..total and the page holding  *)
(* the rows after the first skip: a non-empty page has 1 <= page <= pages; *)
(* has_next is false exactly when the page holds row number total or       *)
(* starts beyond it; pages = 0 exactly when total = 0.                     *)
(***************************************************************************)
C30_PageArithmetic ==
    [][\A u \in users, skip \in Skips, limit \in Limits, author_id \in {None, 0, 1} :
        (resp'.op = "read_books" /\ PageQuery_valid(skip, limit)
            /\ read_books(u, skip, limit, author_id, NoneStr, None))
        => LET total == resp'.total
               n == Len(resp'.items)
               holds_last == total >= 1 /\ skip < total /\ total <= skip + n
               beyond == skip >= total
           IN  /\ resp'.status = "200"
               /\ n > 0 => (1 <= resp'.meta.page /\ resp'.meta.page <= resp'.meta.pages)
               /\ (resp'.meta.has_next = FALSE) <=> (holds_last \/ beyond)
               /\ (resp'.meta.pages = 0) <=> (total = 0)]_vars

\* C30 witness: a page that starts at the second of two rows and ends the list
C30_Witness ==
    /\ resp.op = "read_books" /\ resp.status = "200"
    /\ resp.total = 2 /\ Len(resp.items) = 1 /\ resp.meta.has_prev
    /\ ~resp.meta.has_next /\ resp.meta.page = 1 /\ resp.meta.pages = 1
====
